---- MODULE Spec2Model ----
(***************************************************************************)
(* Model of the research agent graph of backend/src/agent/graph.py.        *)
(*                                                                         *)
(* The graph is run by LangGraph in supersteps: the nodes scheduled for a  *)
(* step run concurrently, their returned updates are applied to the state  *)
(* when all of them have returned, and an exception raised by a node ends  *)
(* the run.  A conditional edge that returns an empty list of Send objects *)
(* schedules nothing, and a step with nothing scheduled ends the run.      *)
(*                                                                         *)
(* Text is a sequence of characters (small naturals); a query is a natural.*)
(* The fields graph.py reads from Configuration are taken as present.      *)
(***************************************************************************)
EXTENDS Integers, Sequences, FiniteSets, TLC

\* ---------------------------------------------------------------- bounds
MaxQueries == 2      \* longest query list a model call returns
MaxLoops == 2        \* largest max_research_loops of a run
MaxSources == 2      \* longest sources list handed to finalize_answer alone
MaxHits == 2         \* most results the plain web search returns in the model
MaxText == 2         \* longest text handed to insert_citation_markers
MaxSpans == 2        \* longest citation list handed to insert_citation_markers
MaxCited == 2        \* longest sources list handed to _insert_simple_citations
MaxSentences == 2    \* most sentences of the text handed to _insert_simple_citations

\* GenericWebSearcher.__init__: max_content_length
max_content_length == 2000

\* web_research asks the custom search for max_results=5 results
max_results == 5

\* the numbers of results the plain web search may have for a query
PlainCounts == {0, 1, max_results}

\* ------------------------------------------------------------- universes
\* short-form tokens and addresses, as character strings
ShortUrls == {<<1>>, <<2>>}
Urls == {<<>>, <<7>>, <<8>>, <<7, 1>>}
Titles == {1, 2}

\* A source record.  kind says which key the dict carries: "url" (custom
\* format), "value" (Google grounding format), "other" (neither key).
SourceRecords == [kind : {"url", "value", "other"}, addr : Urls,
                  short_url : ShortUrls, title : Titles]

\* the texts a model call may return to finalize_answer
Contents == {<<>>, <<2>>, <<1, 2>>, <<0, 1>>}

\* the short-form token resolve_urls gives the address cited by task id: it
\* is built from the id, so two tasks citing one address get two tokens
ShortOf(id) == <<id + 1>>

\* what the grounded web_research call of task id may return: the marked
\* text and the segments of its citations
Grounded(s, u) == [kind |-> "value", addr |-> u, short_url |-> s, title |-> 1]
GroundedResults(id) ==
  { [text |-> <<>>, sources |-> <<>>],
    [text |-> <<0>>, sources |-> <<Grounded(ShortOf(id), <<7>>)>>] }

\* the model calls of a run, by the Configuration field that names their
\* provider: query_generator_provider, reflection_provider, answer_provider
Roles == {"query", "reflection", "answer"}

\* what the plain web search, and the model call after it, would do for the
\* query of a task that went to the custom search
FallbackEnvs ==
  {[plain |-> 0, search |-> "raises", llm |-> "unused"],
   [plain |-> 0, search |-> "returns", llm |-> "unused"]}
  \cup [plain : PlainCounts \ {0}, search : {"returns"}, llm : {"returns", "raises"}]

\* one result of DDGS().text and the lengths of the pages fetched
Hits == [title : Titles, url : {<<7>>, <<8>>}, snippet : {1}]
PageLengths == {0, 1, max_content_length, max_content_length + 1}

VARIABLES
  pc,                    \* the node(s) scheduled for the current step
  genai_client,          \* TRUE iff the module-level Client was created
  max_research_loops,    \* the run's loop budget
  query_list,            \* state["query_list"]
  tasks,                 \* the web_research tasks of the current step
  search_query,          \* state["search_query"] (accumulated)
  web_research_result,   \* state["web_research_result"] (accumulated)
  sources_gathered,      \* state["sources_gathered"] (accumulated)
  research_loop_count,   \* state["research_loop_count"]
  is_sufficient,         \* state["is_sufficient"]
  follow_up_queries,     \* state["follow_up_queries"]
  number_of_ran_queries, \* state["number_of_ran_queries"]
  messages,              \* the AI messages appended by finalize_answer
  unique_sources,        \* the sources list finalize_answer returns
  result_content,        \* history: the text the answer model returned
  waves,                 \* history: batches of web_research tasks spawned
  reflections,           \* history: reflection steps completed
  finalized,             \* history: finalize_answer steps completed
  missing,               \* the roles whose provider has no credential set
  error,                 \* the exception that ended the run, if any
  completed,             \* history: web_research tasks that returned
  used_ids,              \* history: the ids of all tasks spawned, in order
  entered,               \* history: reflection steps entered
  s_pc,                  \* GenericWebSearcher.search: where the coroutine is
  s_hits,                \* search: the results of DDGS().text
  s_tasks,               \* search: the _extract_content_async tasks
  s_valid,               \* search: the list it returned
  m_text,                \* web_research: response.text of the native search
  m_citations,           \* web_research: citations, as get_citations gave them
  c_llm,                 \* perform_web_search_with_llm: response.content
  c_sources,             \* _insert_simple_citations: sources
  c_content,             \* _insert_simple_citations: content, as rewritten
  c_i                    \* _insert_simple_citations: sources done by the loop

\* the run's configuration and environment, fixed at start
cfgVars == <<genai_client, max_research_loops, missing>>

\* the variables of GenericWebSearcher.search
searchVars == <<s_pc, s_hits, s_tasks, s_valid>>

\* the variables of the two citation insertions
citeVars == <<m_text, m_citations, c_llm, c_sources, c_content, c_i>>

vars == <<pc, genai_client, max_research_loops, query_list, tasks, search_query,
          web_research_result, sources_gathered, research_loop_count,
          is_sufficient, follow_up_queries, number_of_ran_queries, messages,
          unique_sources, result_content, waves, reflections, finalized,
          missing, error, completed, used_ids, entered,
          s_pc, s_hits, s_tasks, s_valid,
          m_text, m_citations, c_llm, c_sources, c_content, c_i>>

\* ------------------------------------------------------------ text helpers
\* Python: sub in text
Contains(text, sub) ==
  \E i \in 1..(Len(text) - Len(sub) + 1) : SubSeq(text, i, i + Len(sub) - 1) = sub

\* Python: text.replace(old, new), old non-empty: every non-overlapping
\* occurrence, left to right
RECURSIVE Replace(_, _, _)
Replace(text, old, new) ==
  IF Len(text) < Len(old) THEN text
  ELSE IF SubSeq(text, 1, Len(old)) = old
       THEN new \o Replace(SubSeq(text, Len(old) + 1, Len(text)), old, new)
       ELSE <<Head(text)>> \o Replace(Tail(text), old, new)

\* ------------------------------------------------------ sequence helpers
RECURSIVE Concat(_)
Concat(ss) == IF ss = <<>> THEN <<>> ELSE Head(ss) \o Concat(Tail(ss))

\* The accumulated state keys: the lists the tasks of a step returned under
\* key f are appended to the list the state holds, in task order.
Merged(held, done, f) == held \o Concat([j \in 1..Len(done) |-> done[j].out[f]])

\* the queries a model call returns: n of them
Queries(n) == [i \in 1..n |-> i]

\* ------------------------------------------------------------ the routers
\* one Send("web_research", {"search_query": q, "id": id})
\* st, plain, env and out follow the task: plain is the number of results the
\* plain web search has for the query of a task that went to the custom
\* search, env what that search and the model call after it would do
Send(query, id) ==
  [id |-> id, query |-> query, st |-> "pending", plain |-> -1,
   env |-> <<"none", "none">>, out |-> <<>>]

continue_to_web_research(ql) ==
  [idx \in 1..Len(ql) |-> Send(ql[idx], idx - 1)]

\* mutants of evaluate_research
evaluate_research_late(suff, loop_count, max_loops, follow_ups, ran) ==
  IF suff \/ loop_count > max_loops + 1
  THEN [goto |-> "finalize_answer", sends |-> <<>>]
  ELSE [goto |-> "web_research",
        sends |-> [idx \in 1..Len(follow_ups) |-> Send(follow_ups[idx], ran + idx - 1)]]

evaluate_research_gt(suff, loop_count, max_loops, follow_ups, ran) ==
  IF suff \/ loop_count > max_loops
  THEN [goto |-> "finalize_answer", sends |-> <<>>]
  ELSE [goto |-> "web_research",
        sends |-> [idx \in 1..Len(follow_ups) |-> Send(follow_ups[idx], ran + idx - 1)]]

evaluate_research_first_only(suff, loop_count, max_loops, follow_ups, ran) ==
  IF suff \/ loop_count >= max_loops
  THEN [goto |-> "finalize_answer", sends |-> <<>>]
  ELSE [goto |-> "web_research",
        sends |-> [idx \in 1..(IF Len(follow_ups) > 1 THEN 1 ELSE Len(follow_ups))
                     |-> Send(follow_ups[idx], ran + idx - 1)]]

evaluate_research_restart(suff, loop_count, max_loops, follow_ups, ran) ==
  IF suff \/ loop_count >= max_loops
  THEN [goto |-> "finalize_answer", sends |-> <<>>]
  ELSE [goto |-> "web_research",
        sends |-> [idx \in 1..Len(follow_ups) |-> Send(follow_ups[idx], idx - 1)]]

evaluate_research_budget_only(suff, loop_count, max_loops, follow_ups, ran) ==
  IF loop_count >= max_loops
  THEN [goto |-> "finalize_answer", sends |-> <<>>]
  ELSE [goto |-> "web_research",
        sends |-> [idx \in 1..Len(follow_ups) |-> Send(follow_ups[idx], ran + idx - 1)]]

evaluate_research(suff, loop_count, max_loops, follow_ups, ran) ==
  IF suff \/ loop_count >= max_loops
  THEN [goto |-> "finalize_answer", sends |-> <<>>]
  ELSE [goto |-> "web_research",
        sends |-> [idx \in 1..Len(follow_ups) |-> Send(follow_ups[idx], ran + idx - 1)]]

\* ------------------------------------------------- finalize_answer's loop
\* the loop over state["sources_gathered"]: unique_sources, seen_urls and
\* result.content as it goes
RECURSIVE DedupLoop(_, _, _, _)
DedupLoop(sources, unique, seen_urls, content) ==
  IF sources = <<>> THEN [sources |-> unique, content |-> content]
  ELSE LET source == Head(sources)
           rest == Tail(sources)
       IN IF source.kind = "url"
          THEN IF source.addr \notin seen_urls
               THEN DedupLoop(rest, Append(unique, source),
                              seen_urls \cup {source.addr}, content)
               ELSE DedupLoop(rest, unique, seen_urls, content)
          ELSE IF source.kind = "value"
          THEN IF source.addr \notin seen_urls
               THEN DedupLoop(rest, Append(unique, source),
                              seen_urls \cup {source.addr},
                              IF Contains(content, source.short_url)
                              THEN Replace(content, source.short_url, source.addr)
                              ELSE content)
               ELSE DedupLoop(rest, unique, seen_urls, content)
          ELSE DedupLoop(rest, unique, seen_urls, content)

\* ------------------------------------------------------------------ Init
NoError == [kind |-> "none", at |-> "none"]

\* the run state before the first step, for any configuration
InitRun ==
  /\ query_list = <<>>
  /\ tasks = <<>>
  /\ search_query = <<>>
  /\ web_research_result = <<>>
  /\ sources_gathered = <<>>
  /\ research_loop_count = 0
  /\ is_sufficient = FALSE
  /\ follow_up_queries = <<>>
  /\ number_of_ran_queries = 0
  /\ messages = <<>>
  /\ unique_sources = <<>>
  /\ result_content = <<>>
  /\ waves = 0
  /\ reflections = 0
  /\ finalized = 0
  /\ error = NoError
  /\ completed = 0
  /\ used_ids = <<>>
  /\ entered = 0

\* GenericWebSearcher.search not called
InitSearcher ==
  /\ s_pc = "idle"
  /\ s_hits = <<>>
  /\ s_tasks = <<>>
  /\ s_valid = <<>>

\* no citation insertion called
InitCite ==
  /\ m_text = <<>>
  /\ m_citations = <<>>
  /\ c_llm = <<>>
  /\ c_sources = <<>>
  /\ c_content = <<>>
  /\ c_i = 0

Init ==
  /\ pc = "generate_query"
  /\ genai_client \in BOOLEAN
  /\ max_research_loops \in 0..MaxLoops
  /\ missing \in SUBSET Roles
  /\ InitRun
  /\ InitSearcher
  /\ InitCite

\* --------------------------------------------------------------- actions
\* get_llm: raises ValueError when the provider's credential is not set
get_llm(role) == IF role \in missing THEN "ValueError" ELSE "llm"

\* an exception leaves the node: the run ends with it
Fail(kind, at) ==
  /\ pc' = "failed"
  /\ error' = [kind |-> kind, at |-> at]

\* The step after a router returned `sends`: the tasks run next; with no
\* task the run ends.
Schedule(sends) ==
  /\ tasks' = sends
  /\ used_ids' = used_ids \o [i \in 1..Len(sends) |-> sends[i].id]
  /\ IF sends = <<>>
     THEN pc' = "END" /\ waves' = waves
     ELSE pc' = "web_research" /\ waves' = waves + 1

generate_query ==
  /\ pc = "generate_query"
  /\ \/ /\ get_llm("query") = "ValueError"
        /\ Fail("credential", "generate_query")
        /\ UNCHANGED <<query_list, tasks, waves, used_ids>>
     \/ /\ get_llm("query") = "llm"
        /\ \E n \in 0..MaxQueries :
             /\ query_list' = Queries(n)
             /\ Schedule(continue_to_web_research(Queries(n)))
        /\ UNCHANGED error
     \/ \* the model call raises
        /\ get_llm("query") = "llm"
        /\ Fail("model", "generate_query")
        /\ UNCHANGED <<query_list, tasks, waves, used_ids>>
  /\ UNCHANGED <<cfgVars, search_query,
                 web_research_result, sources_gathered, research_loop_count,
                 is_sufficient, follow_up_queries, number_of_ran_queries,
                 messages, unique_sources, result_content, reflections, finalized,
                 completed, entered, searchVars, citeVars>>

\* mutant of StartTask: a task counts itself as a research loop
StartTask_counts(i) ==
  /\ pc = "web_research"
  /\ tasks[i].st = "pending"
  /\ tasks' = [tasks EXCEPT ![i].st = "running"]
  /\ research_loop_count' = research_loop_count + 1
  /\ UNCHANGED <<pc, cfgVars, query_list, search_query,
                 web_research_result, sources_gathered,
                 is_sufficient, follow_up_queries, number_of_ran_queries,
                 messages, unique_sources, result_content, waves, reflections,
                 finalized, error, completed, used_ids, entered, searchVars, citeVars>>

\* a web_research task of the current step starts running
StartTask(i) ==
  /\ pc = "web_research"
  /\ tasks[i].st = "pending"
  /\ tasks' = [tasks EXCEPT ![i].st = "running"]
  /\ UNCHANGED <<pc, cfgVars, query_list, search_query,
                 web_research_result, sources_gathered, research_loop_count,
                 is_sufficient, follow_up_queries, number_of_ran_queries,
                 messages, unique_sources, result_content, waves, reflections,
                 finalized, error, completed, used_ids, entered, searchVars, citeVars>>

\* perform_web_search_with_llm is a coroutine function: the plain call in
\* web_research does not await it and gets a coroutine object
perform_web_search_with_llm(query) == [kind |-> "coroutine"]

\* mutant of GroundedUpdate: an empty text is not returned
GroundedUpdate_drop_empty(query, r) ==
  [sources_gathered |-> r.sources,
   search_query |-> <<query>>,
   web_research_result |-> IF r.text = <<>> THEN <<>> ELSE <<r.text>>]

\* the update web_research returns after the native search
GroundedUpdate(query, r) ==
  [sources_gathered |-> r.sources,
   search_query |-> <<query>>,
   web_research_result |-> <<r.text>>]

\* mutant of Return: reflection is scheduled by the first task that returns
Return_first_completed(i, out) ==
  LET done == [tasks EXCEPT ![i].st = "done", ![i].out = out]
      only == <<done[i]>>
  IN /\ tasks' = done
     /\ completed' = completed + 1
     /\ pc' = "reflection"
     /\ sources_gathered' = Merged(sources_gathered, only, "sources_gathered")
     /\ search_query' = Merged(search_query, only, "search_query")
     /\ web_research_result' = Merged(web_research_result, only, "web_research_result")
     /\ UNCHANGED error

\* mutant of Return: at the join only the update of the task that returned
\* last is applied
Return_last_only(i, out) ==
  LET done == [tasks EXCEPT ![i].st = "done", ![i].out = out]
      all == \A j \in 1..Len(done) : done[j].st = "done"
      only == <<done[i]>>
  IN /\ tasks' = done
     /\ completed' = completed + 1
     /\ IF all
        THEN /\ pc' = "reflection"
             /\ sources_gathered' = Merged(sources_gathered, only, "sources_gathered")
             /\ search_query' = Merged(search_query, only, "search_query")
             /\ web_research_result' = Merged(web_research_result, only, "web_research_result")
        ELSE UNCHANGED <<pc, sources_gathered, search_query, web_research_result>>
     /\ UNCHANGED error

\* Task i returned `out`.  When it is the last task of the step, the updates
\* of all tasks are applied to the state and reflection is scheduled.
Return(i, out) ==
  LET done == [tasks EXCEPT ![i].st = "done", ![i].out = out]
      all == \A j \in 1..Len(done) : done[j].st = "done"
  IN /\ tasks' = done
     /\ completed' = completed + 1
     /\ IF all
        THEN /\ pc' = "reflection"
             /\ sources_gathered' = Merged(sources_gathered, done, "sources_gathered")
             /\ search_query' = Merged(search_query, done, "search_query")
             /\ web_research_result' = Merged(web_research_result, done, "web_research_result")
        ELSE UNCHANGED <<pc, sources_gathered, search_query, web_research_result>>
     /\ UNCHANGED error

\* Task i raised in the custom search, e being what the plain web search and
\* the model call after it would do for its query: the exception ends the run.
Raise(i, e, kind) ==
  /\ tasks' = [tasks EXCEPT ![i].st = "raised", ![i].plain = e.plain,
                            ![i].env = <<e.search, e.llm>>]
  /\ Fail(kind, "web_research")
  /\ UNCHANGED <<sources_gathered, search_query, web_research_result, completed>>

web_research(i) ==
  /\ pc = "web_research"
  /\ tasks[i].st = "running"
  /\ \/ \* Google native search returns
        /\ genai_client
        /\ \E r \in GroundedResults(tasks[i].id) :
             Return(i, GroundedUpdate(tasks[i].query, r))
     \/ \* no client, or the native search raised: the custom search
        \E e \in FallbackEnvs :
          IF get_llm("query") = "ValueError"
          THEN Raise(i, e, "credential")
          ELSE LET search_results == perform_web_search_with_llm(tasks[i].query)
               IN IF search_results.kind = "dict"
                  THEN Return(i, [sources_gathered |-> search_results.sources_gathered,
                                  search_query |-> <<search_results.search_query>>,
                                  web_research_result |->
                                     <<search_results.web_research_result>>])
                  ELSE \* subscripting the coroutine object raises TypeError
                       Raise(i, e, "task")
  /\ UNCHANGED <<cfgVars, query_list, research_loop_count,
                 is_sufficient, follow_up_queries, number_of_ran_queries,
                 messages, unique_sources, result_content, waves, reflections,
                 finalized, used_ids, entered, searchVars, citeVars>>

\* mutant of NextLoopCount
NextLoopCount_twice(count) == count + 2

\* reflection: state.get("research_loop_count", 0) + 1
NextLoopCount(count) == count + 1

reflection ==
  /\ pc = "reflection"
  /\ entered' = entered + 1
  /\ \/ /\ get_llm("reflection") = "llm"
        /\ \E suff \in BOOLEAN, k \in 0..MaxQueries :
          LET count == NextLoopCount(research_loop_count)
              ran == Len(search_query)
              route == evaluate_research(suff, count, max_research_loops,
                                         Queries(k), ran)
          IN /\ is_sufficient' = suff
             /\ follow_up_queries' = Queries(k)
             /\ research_loop_count' = count
             /\ number_of_ran_queries' = ran
             /\ reflections' = reflections + 1
             /\ IF route.goto = "finalize_answer"
                THEN pc' = "finalize_answer" /\ UNCHANGED <<tasks, waves, used_ids>>
                ELSE Schedule(route.sends)
        /\ UNCHANGED error
     \/ \* get_llm raises: the incremented count is not returned
        /\ get_llm("reflection") = "ValueError"
        /\ Fail("credential", "reflection")
        /\ UNCHANGED <<is_sufficient, follow_up_queries, research_loop_count,
                       number_of_ran_queries, reflections, tasks, waves, used_ids>>
     \/ \* the model call raises: the incremented count is not returned
        /\ get_llm("reflection") = "llm"
        /\ Fail("model", "reflection")
        /\ UNCHANGED <<is_sufficient, follow_up_queries, research_loop_count,
                       number_of_ran_queries, reflections, tasks, waves, used_ids>>
  /\ UNCHANGED <<cfgVars, query_list, search_query,
                 web_research_result, sources_gathered, messages, unique_sources,
                 result_content, finalized, completed, searchVars, citeVars>>

\* mutant of AfterFinalize: the edge leads back into the loop
AfterFinalize_loop == "reflection"

\* builder.add_edge("finalize_answer", END)
AfterFinalize == "END"

\* mutant of finalize_answer_raise: the exception is swallowed and an empty
\* answer returned
finalize_answer_swallow(kind) ==
  /\ error' = [kind |-> kind, at |-> "finalize_answer"]
  /\ pc' = AfterFinalize
  /\ messages' = Append(messages, <<>>)
  /\ UNCHANGED <<unique_sources, result_content, finalized>>

\* get_llm or the model call of finalize_answer raises
finalize_answer_raise(kind) ==
  /\ Fail(kind, "finalize_answer")
  /\ UNCHANGED <<messages, unique_sources, result_content, finalized>>

finalize_answer ==
  /\ pc = "finalize_answer"
  /\ \/ /\ get_llm("answer") = "llm"
        /\ \E content \in Contents :
          LET r == DedupLoop(sources_gathered, <<>>, {}, content)
          IN /\ messages' = Append(messages, r.content)
             /\ unique_sources' = r.sources
             /\ result_content' = content
             /\ finalized' = finalized + 1
             /\ pc' = AfterFinalize
        /\ UNCHANGED error
     \/ /\ get_llm("answer") = "ValueError"
        /\ finalize_answer_raise("credential")
     \/ /\ get_llm("answer") = "llm"
        /\ finalize_answer_raise("model")
  /\ UNCHANGED <<cfgVars, query_list, tasks, search_query,
                 web_research_result, sources_gathered, research_loop_count,
                 is_sufficient, follow_up_queries, number_of_ran_queries, waves,
                 reflections, completed, used_ids, entered, searchVars, citeVars>>

Next ==
  \/ generate_query
  \/ \E i \in 1..Len(tasks) : StartTask(i)
  \/ \E i \in 1..Len(tasks) : web_research(i)
  \/ reflection
  \/ finalize_answer

Spec == Init /\ [][Next]_vars

\* ------------------------------------- finalize_answer on its own inputs
\* every list of at most n source records
SourceLists(n) == UNION { [1..k -> SourceRecords] : k \in 0..n }

InitFinalize ==
  /\ pc = "finalize_answer"
  /\ genai_client = TRUE
  /\ max_research_loops = 1
  /\ missing = {}
  /\ query_list = Queries(1)
  /\ tasks = <<>>
  /\ search_query = Queries(1)
  /\ web_research_result = <<<<0>>>>
  /\ sources_gathered \in SourceLists(MaxSources)
  /\ research_loop_count = 1
  /\ is_sufficient = TRUE
  /\ follow_up_queries = <<>>
  /\ number_of_ran_queries = 1
  /\ messages = <<>>
  /\ unique_sources = <<>>
  /\ result_content = <<>>
  /\ waves = 1
  /\ reflections = 1
  /\ finalized = 0
  /\ error = NoError
  /\ completed = 1
  /\ used_ids = <<0>>
  /\ entered = 1
  /\ InitSearcher
  /\ InitCite

NextFinalize == finalize_answer

SpecFinalize == InitFinalize /\ [][NextFinalize]_vars

\* ------------------------------------------ GenericWebSearcher.search
\* A text is stood for by its length here.
\* _extract_content_async: the text kept of a page text of length len
Truncate(len) ==
  IF len > max_content_length THEN max_content_length + 3 ELSE len

WebSearchResult(title, url, snippet, content) ==
  [kind |-> "WebSearchResult", title |-> title, url |-> url,
   snippet |-> snippet, content |-> content]

\* mutant of FetchFailed: the exception leaves _extract_content_async
FetchFailed_exception(hit) ==
  [kind |-> "Exception", title |-> hit.title, url |-> hit.url,
   snippet |-> hit.snippet, content |-> 0]

\* _extract_content_async: the except branch
FetchFailed(hit) == WebSearchResult(hit.title, hit.url, hit.snippet, 0)

\* search: [r for r in results if isinstance(r, WebSearchResult)]
ValidResults(results) == SelectSeq(results, LAMBDA r : r.kind = "WebSearchResult")

\* every list of at most n results of DDGS().text
HitLists(n) == UNION { [1..k -> Hits] : k \in 0..n }

graphVars == <<pc, genai_client, max_research_loops, query_list, tasks,
               search_query, web_research_result, sources_gathered,
               research_loop_count, is_sufficient, follow_up_queries,
               number_of_ran_queries, messages, unique_sources, result_content,
               waves, reflections, finalized, missing, error, completed,
               used_ids, entered>>

\* search up to its await of asyncio.gather: DDGS().text returns or raises,
\* and one _extract_content_async coroutine is made for each result
DDGSText ==
  /\ s_pc = "search"
  /\ \/ \E hits \in HitLists(MaxHits) :
          /\ s_hits' = hits
          /\ s_tasks' = [i \in 1..Len(hits) |->
                           [st |-> "pending", page |-> -1, result |-> [kind |-> "none"]]]
          /\ IF hits = <<>>
             THEN s_pc' = "returned" /\ s_valid' = <<>>
             ELSE s_pc' = "gather" /\ UNCHANGED s_valid
     \/ \* the except branch of search
        /\ s_pc' = "returned"
        /\ s_valid' = <<>>
        /\ UNCHANGED <<s_hits, s_tasks>>
  /\ UNCHANGED <<graphVars, citeVars>>

\* an _extract_content_async coroutine starts its request
ExtractStart(i) ==
  /\ s_pc = "gather"
  /\ s_tasks[i].st = "pending"
  /\ s_tasks' = [s_tasks EXCEPT ![i].st = "running"]
  /\ UNCHANGED <<s_pc, s_hits, s_valid, graphVars, citeVars>>

\* Coroutine i gave `result`, having read a page text of length page (-1:
\* none).  When it is the last one, gather returns the results in the order
\* of the coroutines and search returns the valid ones.
Extracted(i, page, result) ==
  LET done == [s_tasks EXCEPT ![i].st = "done", ![i].page = page, ![i].result = result]
      all == \A j \in 1..Len(done) : done[j].st = "done"
  IN /\ s_tasks' = done
     /\ IF all
        THEN /\ s_pc' = "returned"
             /\ s_valid' = ValidResults([j \in 1..Len(done) |-> done[j].result])
        ELSE UNCHANGED <<s_pc, s_valid>>

_extract_content_async(i) ==
  /\ s_pc = "gather"
  /\ s_tasks[i].st = "running"
  /\ \/ \E len \in PageLengths :
          Extracted(i, len, WebSearchResult(s_hits[i].title, s_hits[i].url,
                                            s_hits[i].snippet, Truncate(len)))
     \/ \* the request, the status check or the parse raises
        Extracted(i, -1, FetchFailed(s_hits[i]))
  /\ UNCHANGED <<s_hits, graphVars, citeVars>>

\* the state of a run with one task in the custom search, its search called
InitSearch ==
  /\ pc = "web_research"
  /\ genai_client = FALSE
  /\ max_research_loops = 1
  /\ missing = {}
  /\ query_list = Queries(1)
  /\ tasks = <<[Send(1, 0) EXCEPT !.st = "running"]>>
  /\ search_query = <<>>
  /\ web_research_result = <<>>
  /\ sources_gathered = <<>>
  /\ research_loop_count = 0
  /\ is_sufficient = FALSE
  /\ follow_up_queries = <<>>
  /\ number_of_ran_queries = 0
  /\ messages = <<>>
  /\ unique_sources = <<>>
  /\ result_content = <<>>
  /\ waves = 1
  /\ reflections = 0
  /\ finalized = 0
  /\ error = NoError
  /\ completed = 0
  /\ used_ids = <<0>>
  /\ entered = 0
  /\ s_pc = "search"
  /\ s_hits = <<>>
  /\ s_tasks = <<>>
  /\ s_valid = <<>>
  /\ InitCite

NextSearch ==
  \/ DDGSText
  \/ \E i \in 1..Len(s_tasks) : ExtractStart(i)
  \/ \E i \in 1..Len(s_tasks) : _extract_content_async(i)

SpecSearch == InitSearch /\ [][NextSearch]_vars

\* --------------------------------------------- insert_citation_markers
\* the texts of the native search: k distinct characters
Texts(n) == { [i \in 1..k |-> 10 + i] : k \in 0..n }

\* a citation: the span it supports, in offsets of the text, and its label
Citations == [start_index : {-1, 0}, end_index : -1..(MaxText + 1), label : Titles]

\* every list of at most n citations
CitationLists(n) == UNION { [1..k -> Citations] : k \in 0..n }

\* the marker of a label: the label in brackets
Marker(label) == <<91, label, 93>>

\* an offset is negative or beyond the text: the span is dropped
ValidSpan(text, c) ==
  /\ c.start_index >= 0 /\ c.start_index <= Len(text)
  /\ c.end_index >= 0 /\ c.end_index <= Len(text)

\* c put into a list in descending order of end offset, behind its equals
RECURSIVE InsertSorted(_, _)
InsertSorted(sorted, c) ==
  IF sorted = <<>> THEN <<c>>
  ELSE IF Head(sorted).end_index >= c.end_index
       THEN <<Head(sorted)>> \o InsertSorted(Tail(sorted), c)
       ELSE <<c>> \o sorted

\* the list in descending order of end offset; spans with one end offset
\* stay in the order of the list
RECURSIVE SortedByEnd(_)
SortedByEnd(cs) ==
  IF cs = <<>> THEN <<>>
  ELSE InsertSorted(SortedByEnd(SubSeq(cs, 1, Len(cs) - 1)), cs[Len(cs)])

\* spans at one end offset collapse to a single insertion, the first one's
RECURSIVE Collapsed(_)
Collapsed(sorted) ==
  IF Len(sorted) <= 1 THEN sorted
  ELSE IF sorted[1].end_index = sorted[2].end_index
       THEN Collapsed(<<sorted[1]>> \o SubSeq(sorted, 3, Len(sorted)))
       ELSE <<sorted[1]>> \o Collapsed(Tail(sorted))

\* the markers put in one after the other, each right after its end offset
RECURSIVE ApplyMarkers(_, _)
ApplyMarkers(text, cs) ==
  IF cs = <<>> THEN text
  ELSE LET end_idx == Head(cs).end_index
       IN ApplyMarkers(SubSeq(text, 1, end_idx) \o Marker(Head(cs).label)
                         \o SubSeq(text, end_idx + 1, Len(text)),
                       Tail(cs))

\* mutant of insert_citation_markers: the spans are taken in list order
insert_citation_markers_unsorted(text, citations_list) ==
  ApplyMarkers(text,
    Collapsed(SelectSeq(citations_list, LAMBDA c : ValidSpan(text, c))))

insert_citation_markers(text, citations_list) ==
  ApplyMarkers(text,
    Collapsed(SortedByEnd(SelectSeq(citations_list, LAMBDA c : ValidSpan(text, c)))))

\* web_research: the native search returned response.text and the citations;
\* the marked text and the segments of the citations are the task's update
grounded_search(i) ==
  /\ pc = "web_research"
  /\ tasks[i].st = "running"
  /\ genai_client
  /\ LET modified_text == insert_citation_markers(m_text, m_citations)
         segments == [k \in 1..Len(m_citations) |->
                        Grounded(<<m_citations[k].label>>, <<7>>)]
     IN Return(i, GroundedUpdate(tasks[i].query,
                                 [text |-> modified_text, sources |-> segments]))
  /\ UNCHANGED <<cfgVars, query_list, research_loop_count,
                 is_sufficient, follow_up_queries, number_of_ran_queries,
                 messages, unique_sources, result_content, waves, reflections,
                 finalized, used_ids, entered, searchVars, citeVars>>

\* the state of a run with one task in the native search, its response there
InitMarkers ==
  /\ pc = "web_research"
  /\ genai_client = TRUE
  /\ max_research_loops = 1
  /\ missing = {}
  /\ query_list = Queries(1)
  /\ tasks = <<[Send(1, 0) EXCEPT !.st = "running"]>>
  /\ search_query = <<>>
  /\ web_research_result = <<>>
  /\ sources_gathered = <<>>
  /\ research_loop_count = 0
  /\ is_sufficient = FALSE
  /\ follow_up_queries = <<>>
  /\ number_of_ran_queries = 0
  /\ messages = <<>>
  /\ unique_sources = <<>>
  /\ result_content = <<>>
  /\ waves = 1
  /\ reflections = 0
  /\ finalized = 0
  /\ error = NoError
  /\ completed = 0
  /\ used_ids = <<0>>
  /\ entered = 0
  /\ InitSearcher
  /\ m_text \in Texts(MaxText)
  /\ m_citations \in CitationLists(MaxSpans)
  /\ c_llm = <<>>
  /\ c_sources = <<>>
  /\ c_content = <<>>
  /\ c_i = 0

NextMarkers == \E i \in 1..Len(tasks) : grounded_search(i)

SpecMarkers == InitMarkers /\ [][NextMarkers]_vars

\* -------------------------------------------- _insert_simple_citations
\* Characters: 0 is '.', 5 is ' ', 1 and 2 are lower-case letters, 11 and 12
\* their upper-case forms, 7 to 9 the characters of addresses and labels.
\* Python: text.lower()
Lower(text) ==
  [k \in 1..Len(text) |-> IF text[k] \in {11, 12} THEN text[k] - 10 ELSE text[k]]

\* Python: text.split(sep) for a one-character sep: empty pieces are kept
RECURSIVE SplitOn(_, _)
SplitOn(text, sep) ==
  IF \A k \in 1..Len(text) : text[k] # sep THEN <<text>>
  ELSE LET k == CHOOSE n \in 1..Len(text) :
                  text[n] = sep /\ \A m \in 1..(n - 1) : text[m] # sep
       IN <<SubSeq(text, 1, k - 1)>> \o SplitOn(SubSeq(text, k + 1, Len(text)), sep)

\* Python: text.split(): the pieces between blanks, none empty
SplitWs(text) == SelectSeq(SplitOn(text, 5), LAMBDA w : w # <<>>)

\* Python: '.'.join(sentences), sentences not empty
RECURSIVE JoinDot(_)
JoinDot(sentences) ==
  IF Len(sentences) = 1 THEN sentences[1]
  ELSE sentences[1] \o <<0>> \o JoinDot(Tail(sentences))

\* f" [{source['short_url']}]({source['url']})"
Citation(source) ==
  <<5, 91>> \o source.short_url \o <<93, 40>> \o source.url \o <<41>>

\* source['title'].lower().split()[:3]
TitleWords(source) ==
  LET words == SplitWs(Lower(source.title))
  IN SubSeq(words, 1, IF Len(words) < 3 THEN Len(words) ELSE 3)

\* mutant of SentenceLoop: no break, every sentence with the word is marked
RECURSIVE SentenceLoop_all(_, _, _)
SentenceLoop_all(sentences, word, citation) ==
  IF sentences = <<>> THEN <<>>
  ELSE IF Contains(Lower(Head(sentences)), word) /\ ~Contains(Head(sentences), citation)
       THEN <<Head(sentences) \o citation>> \o SentenceLoop_all(Tail(sentences), word, citation)
       ELSE <<Head(sentences)>> \o SentenceLoop_all(Tail(sentences), word, citation)

\* the loop over the sentences: the first one that has the word and not the
\* citation gets the citation, and the loop ends
RECURSIVE SentenceLoop(_, _, _)
SentenceLoop(sentences, word, citation) ==
  IF sentences = <<>> THEN <<>>
  ELSE IF Contains(Lower(Head(sentences)), word) /\ ~Contains(Head(sentences), citation)
       THEN <<Head(sentences) \o citation>> \o Tail(sentences)
       ELSE <<Head(sentences)>> \o SentenceLoop(Tail(sentences), word, citation)

\* the loop over the title words: the first word longer than 3 that is in the
\* text decides, and the loop ends
RECURSIVE WordLoop(_, _, _)
WordLoop(text, words, citation) ==
  IF words = <<>> THEN text
  ELSE IF Len(Head(words)) > 3 /\ Contains(Lower(text), Head(words))
       THEN JoinDot(SentenceLoop(SplitOn(text, 0), Head(words), citation))
       ELSE WordLoop(text, Tail(words), citation)

\* the titles, addresses and labels of the sources, and the sentences of the
\* text the model returned
CiteTitles == {<<1, 1, 1, 1>>, <<12, 2, 2, 2, 5, 1, 1, 1, 1>>, <<1, 1>>, <<1, 1, 0, 1>>}
CiteUrls == {<<7>>, <<7, 0, 8>>}
CiteSources == [title : CiteTitles, url : CiteUrls, short_url : {<<9>>}]
Sentences == {<<1, 1, 1, 1>>, <<11, 1, 1, 1>>, <<2, 2, 2, 2>>, <<1, 1>>}

\* every list of 1 to n sources; every text of 1 to n sentences
CiteSourceLists(n) == UNION { [1..k -> CiteSources] : k \in 1..n }
CiteContents(n) == { JoinDot(ss) : ss \in UNION { [1..k -> Sentences] : k \in 1..n } }

\* one round of the loop over the sources
_insert_simple_citations ==
  /\ s_pc = "returned"
  /\ c_i < Len(c_sources)
  /\ LET source == c_sources[c_i + 1]
     IN c_content' = WordLoop(c_content, TitleWords(source), Citation(source))
  /\ c_i' = c_i + 1
  /\ UNCHANGED <<graphVars, searchVars, m_text, m_citations, c_llm, c_sources>>

\* the state of a run with one task in the custom search: the search has
\* returned a record for each source and the model its text
InitSimple ==
  /\ pc = "web_research"
  /\ genai_client = FALSE
  /\ max_research_loops = 1
  /\ missing = {}
  /\ query_list = Queries(1)
  /\ tasks = <<[Send(1, 0) EXCEPT !.st = "running"]>>
  /\ search_query = <<>>
  /\ web_research_result = <<>>
  /\ sources_gathered = <<>>
  /\ research_loop_count = 0
  /\ is_sufficient = FALSE
  /\ follow_up_queries = <<>>
  /\ number_of_ran_queries = 0
  /\ messages = <<>>
  /\ unique_sources = <<>>
  /\ result_content = <<>>
  /\ waves = 1
  /\ reflections = 0
  /\ finalized = 0
  /\ error = NoError
  /\ completed = 0
  /\ used_ids = <<0>>
  /\ entered = 0
  /\ c_sources \in CiteSourceLists(MaxCited)
  /\ c_llm \in CiteContents(MaxSentences)
  /\ c_content = c_llm
  /\ c_i = 0
  /\ m_text = <<>>
  /\ m_citations = <<>>
  /\ s_pc = "returned"
  /\ s_hits = [k \in 1..Len(c_sources) |->
                 [title |-> 1, url |-> c_sources[k].url, snippet |-> 1]]
  /\ s_tasks = [k \in 1..Len(c_sources) |->
                  [st |-> "done", page |-> -1, result |-> FetchFailed(s_hits[k])]]
  /\ s_valid = [k \in 1..Len(c_sources) |-> FetchFailed(s_hits[k])]

NextSimple == _insert_simple_citations

SpecSimple == InitSimple /\ [][NextSimple]_vars

\* ================================================================ claims
AllDone == \A i \in 1..Len(tasks) : tasks[i].st = "done"

\* C1: a run spawns at most max_research_loops + 1 batches of web_research
\* tasks, whatever the reflections return.
C1_WaveBound == waves <= max_research_loops + 1

\* a run with budget 0 ended after its one wave
C1_Witness ==
  pc = "END" /\ finalized = 1 /\ max_research_loops = 0 /\ waves = 1

\* C2 as stated: once reflection has incremented it, research_loop_count is
\* at most max_research_loops, for every budget >= 0.
C2_Original == reflections >= 1 => research_loop_count <= max_research_loops

\* C2 amended: research_loop_count is at most max_research_loops when the
\* budget is at least 1, and at most 1 when the budget is 0.
C2_LoopCountBound ==
  research_loop_count <= (IF max_research_loops = 0 THEN 1 ELSE max_research_loops)

\* the count reached a budget of 2
C2_Witness ==
  reflections = 2 /\ research_loop_count = 2 /\ max_research_loops = 2

\* C3: a completed reflection is followed by finalize_answer iff is_sufficient
\* or research_loop_count >= max_research_loops; otherwise by exactly one
\* pending web_research task per follow-up query, and by nothing else.
C3_Routing ==
  [][ (pc = "reflection" /\ pc' # "failed") =>
        /\ (pc' = "finalize_answer")
             <=> (is_sufficient' \/ research_loop_count' >= max_research_loops)
        /\ pc' # "finalize_answer" =>
             /\ pc' = (IF follow_up_queries' = <<>> THEN "END" ELSE "web_research")
             /\ Len(tasks') = Len(follow_up_queries')
             /\ \A i \in 1..Len(tasks') :
                  /\ tasks'[i].query = follow_up_queries'[i]
                  /\ tasks'[i].st = "pending" ]_vars

\* a reflection below the budget spawned one task for each of two follow-ups
C3_Witness ==
  /\ pc = "web_research" /\ reflections = 1 /\ ~is_sufficient
  /\ research_loop_count < max_research_loops
  /\ Len(follow_up_queries) = 2 /\ Len(tasks) = 2

\* C4 as stated: a run that reaches the end has its final text.
C4_EndHasFinalText == pc = "END" => Len(messages) = 1

\* C5: when the first reflection says sufficient, the run has one wave and one
\* reflection, research_loop_count is 1, and only finalize_answer follows.
C5_SufficientFirst ==
  (reflections = 1 /\ is_sufficient) =>
     /\ waves = 1
     /\ research_loop_count = 1
     /\ pc \in {"finalize_answer", "END", "failed"}
     /\ (pc = "END") <=> (finalized = 1)

\* such a run, with two queries and budget to spare, ended
C5_Witness ==
  /\ reflections = 1 /\ is_sufficient /\ pc = "END" /\ finalized = 1
  /\ Len(query_list) = 2 /\ max_research_loops = 2

\* C6: reflection is scheduled only when every task of the current wave has
\* returned, and a new wave is spawned only when every task of the wave
\* before it has returned.
C6_Barrier ==
  /\ [](pc = "reflection" => AllDone)
  /\ [][waves' > waves => AllDone]_vars

\* in the second wave, one task has returned and another is still running
C6_Witness ==
  /\ pc = "web_research" /\ waves = 2
  /\ \E i, j \in 1..Len(tasks) : tasks[i].st = "done" /\ tasks[j].st = "running"

\* C7 as stated: a web_research task that fails does not abort the run.
C7_FailedTaskContained ==
  \A i \in 1..Len(tasks) : tasks[i].st = "raised" => pc # "failed"

\* C8 as stated: a task that went to the custom search, whose plain search
\* has at least one result, returns with a non-empty evidence entry.
C8_FallbackContributes ==
  \A i \in 1..Len(tasks) :
    tasks[i].plain >= 1 =>
      /\ tasks[i].st = "done"
      /\ tasks[i].out.web_research_result # <<<<>>>>

\* C9 as stated: every short-form token of sources that share one address
\* and that occurs in the generated text is rewritten in the final text.
C9_AllAliasesRewritten ==
  (pc = "END" /\ finalized = 1) =>
    \A i, j \in 1..Len(sources_gathered) :
      LET a == sources_gathered[i]
          b == sources_gathered[j]
      IN (/\ a.kind = "value" /\ b.kind = "value"
          /\ a.addr = b.addr /\ a.short_url # b.short_url
          /\ Contains(result_content, a.short_url))
         => ~Contains(messages[1], a.short_url)

\* the records of sources_gathered that carry an address
Keyed(sources) == SelectSeq(sources, LAMBDA s : s.kind # "other")

\* C10 as stated: the list finalize_answer returns has at most one record per
\* address, that record is the first one seen with the address, and no
\* record has an empty address.
C10_UniqueFirstNonEmpty ==
  (pc = "END" /\ finalized = 1) =>
    /\ \A i, j \in 1..Len(unique_sources) :
         unique_sources[i].addr = unique_sources[j].addr => i = j
    /\ \A i \in 1..Len(unique_sources) :
         LET k == Keyed(sources_gathered)
         IN \E n \in 1..Len(k) :
              /\ k[n] = unique_sources[i]
              /\ \A m \in 1..(n - 1) : k[m].addr # k[n].addr
    /\ \A i \in 1..Len(unique_sources) : unique_sources[i].addr # <<>>

\* C11 as stated: finalize_answer's loop, run again on the sources and the
\* text it produced, changes neither.
C11_Idempotent ==
  (pc = "END" /\ finalized = 1) =>
    DedupLoop(unique_sources, <<>>, {}, messages[1])
      = [sources |-> unique_sources, content |-> messages[1]]

\* C12 as stated: in every state web_research_result has one entry for each
\* web_research task that has returned.
C12_Original == Len(web_research_result) = completed

\* C12 amended: whenever every task of the current wave has returned,
\* web_research_result has one entry for each task that has returned in the
\* run; and web_research_result never gets shorter.
C12_EvidenceCount ==
  /\ [](AllDone => Len(web_research_result) = completed)
  /\ [][Len(web_research_result') >= Len(web_research_result)]_vars

\* the second wave of two tasks has joined
C12_Witness ==
  pc = "reflection" /\ waves = 2 /\ completed = 4 /\ Len(web_research_result) = 4

\* C13: the k-th task spawned in a run has id k - 1: the first wave has ids
\* 0..n-1, each later wave goes on from the number of queries run, and no id
\* is given twice.
C13_UniqueIds == \A k \in 1..Len(used_ids) : used_ids[k] = k - 1

\* two waves of two tasks were spawned
C13_Witness == waves = 2 /\ Len(used_ids) = 4 /\ Len(tasks) = 2

\* C14 as stated: research_loop_count is the number of reflection steps
\* entered, also when the model call of one failed.
C14_Original == research_loop_count = entered

\* C14 amended: research_loop_count is the number of reflection steps that
\* returned; a reflection whose get_llm or model call raises is entered but
\* leaves research_loop_count as it was.
C14_CountsReturned ==
  /\ research_loop_count = reflections
  /\ entered = reflections + (IF error.at = "reflection" THEN 1 ELSE 0)

\* the second reflection raised after the first had returned
C14_Witness ==
  error.at = "reflection" /\ entered = 2 /\ research_loop_count = 1

\* C15: once finalize_answer has appended the final message, no step runs
\* and nothing of the state changes.
C15_Terminal == [][messages # <<>> => UNCHANGED vars]_vars

\* a run ended with its final message after two waves
C15_Witness == pc = "END" /\ finalized = 1 /\ Len(messages) = 1 /\ waves = 2

\* C16 as stated: a run that fails for a missing credential has run no
\* web_research task.
C16_CredentialBeforeWaves ==
  error.kind = "credential" => (waves = 0 /\ completed = 0)

ModelFailed ==
  error.kind = "model" /\ error.at \in {"generate_query", "finalize_answer"}

\* C17: when the model call of generate_query or finalize_answer raised, the
\* run has failed, has no final message, and nothing happens afterwards.
C17_ModelFailureFatal ==
  /\ [](ModelFailed => (pc = "failed" /\ messages = <<>>))
  /\ [][ModelFailed => UNCHANGED vars]_vars

\* the model call of finalize_answer raised after two waves
C17_Witness ==
  error = [kind |-> "model", at |-> "finalize_answer"] /\ waves = 2

\* C18 as stated: a task in the custom search whose model call raises
\* returns, the run goes on, and its evidence entry is empty.
C18_LlmFailureContained ==
  \A i \in 1..Len(tasks) :
    tasks[i].env = <<"returns", "raises">> =>
      /\ tasks[i].st = "done"
      /\ pc # "failed"
      /\ tasks[i].out.web_research_result = <<<<>>>>

\* C19 as stated: a task in the custom search whose plain web search raises
\* returns with no sources and an empty evidence text.
C19_SearchFailureContained ==
  \A i \in 1..Len(tasks) :
    tasks[i].env[1] = "raises" =>
      /\ tasks[i].st = "done"
      /\ tasks[i].out.sources_gathered = <<>>
      /\ tasks[i].out.web_research_result = <<<<>>>>

Reordered(cs) ==
  { [k \in 1..Len(cs) |-> cs[f[k]]] : f \in Permutations(1..Len(cs)) }

\* the text a finished grounded task returned
MarkedText == tasks[1].out.web_research_result[1]

\* C21 as stated: the marked text is at most one marker per span longer than
\* the text, and is the same for every order of the spans in the list.
C21_Original ==
  (pc = "reflection" /\ tasks[1].st = "done") =>
    /\ Len(MarkedText) <= Len(m_text) + Len(m_citations) * Len(Marker(1))
    /\ \A cs \in Reordered(m_citations) :
         insert_citation_markers(m_text, cs) = MarkedText

\* valid spans of the list that end at one offset carry one label
TiesAgree(text, cs) ==
  \A a, b \in 1..Len(cs) :
    (/\ ValidSpan(text, cs[a]) /\ ValidSpan(text, cs[b])
     /\ cs[a].end_index = cs[b].end_index) => cs[a].label = cs[b].label

\* C21 amended: the marked text is at most one marker per span longer than
\* the text, and never shorter; it is the same for every order of the spans
\* when the spans that end at one offset carry one label.
C21_MarkersOrderFree ==
  (pc = "reflection" /\ tasks[1].st = "done") =>
    /\ Len(MarkedText) <= Len(m_text) + Len(m_citations) * Len(Marker(1))
    /\ Len(MarkedText) >= Len(m_text)
    /\ TiesAgree(m_text, m_citations) =>
         \A cs \in Reordered(m_citations) :
           insert_citation_markers(m_text, cs) = MarkedText

\* two spans given in ascending order of end offset were both marked
C21_Witness ==
  /\ pc = "reflection" /\ tasks[1].st = "done"
  /\ Len(m_citations) = 2
  /\ m_citations[1].end_index = 1 /\ m_citations[2].end_index = 2
  /\ Len(MarkedText) = Len(m_text) + 2 * Len(Marker(1))

\* C22: while a wave runs, a step of a task changes that task alone and the
\* accumulated state not at all; the join appends to the accumulated state
\* the contribution of each task of the wave once, in the order of the tasks,
\* whatever the order in which they returned.
C22_Isolation ==
  /\ [][(pc = "web_research" /\ pc' = "web_research") =>
          /\ UNCHANGED <<search_query, web_research_result, sources_gathered>>
          /\ \E i \in 1..Len(tasks) :
               \A j \in 1..Len(tasks) : j # i => tasks'[j] = tasks[j]]_vars
  /\ [][(pc = "web_research" /\ pc' = "reflection") =>
          /\ search_query' =
               search_query \o [j \in 1..Len(tasks) |-> tasks[j].query]
          /\ web_research_result' =
               web_research_result
                 \o [j \in 1..Len(tasks) |-> tasks'[j].out.web_research_result[1]]
          /\ \A k \in 1..Len(sources_gathered) :
               sources_gathered'[k] = sources_gathered[k]
          /\ \A j \in 1..Len(tasks) :
               \A n \in 1..Len(tasks'[j].out.sources_gathered) :
                 \E k \in (Len(sources_gathered) + 1)..Len(sources_gathered') :
                   sources_gathered'[k] = tasks'[j].out.sources_gathered[n]]_vars

\* a wave of two tasks joined, the first with an empty text, the second with
\* a text and a source
C22_Witness ==
  /\ pc = "reflection" /\ waves = 1 /\ Len(tasks) = 2
  /\ web_research_result = << <<>>, <<0>> >>
  /\ Len(sources_gathered) = 1 /\ search_query = <<1, 2>>

\* the edges of the step graph, failure included
Edges ==
  {<<"generate_query", "web_research">>, <<"generate_query", "END">>,
   <<"web_research", "web_research">>, <<"web_research", "reflection">>,
   <<"reflection", "web_research">>, <<"reflection", "finalize_answer">>,
   <<"reflection", "END">>, <<"finalize_answer", "END">>}
  \cup {<<n, "failed">> : n \in {"generate_query", "web_research",
                                  "reflection", "finalize_answer"}}

\* C23: generate_query runs once, before every other step; every step goes
\* along an edge of the graph, whose only cycle is reflection -> web_research;
\* finalize_answer runs at most once and only after a reflection; and every
\* loop-back from reflection to web_research leaves research_loop_count below
\* max_research_loops.
C23_OneCycle ==
  /\ [](pc = "generate_query" =>
          (waves = 0 /\ completed = 0 /\ entered = 0 /\ finalized = 0))
  /\ [](finalized <= 1 /\ (finalized = 1 => reflections >= 1))
  /\ [](pc = "finalize_answer" => (reflections >= 1 /\ finalized = 0))
  /\ [][/\ pc' # "generate_query"
        /\ <<pc, pc'>> \in Edges
        /\ (pc = "reflection" /\ pc' = "web_research") =>
             /\ research_loop_count' < max_research_loops
             /\ waves' = waves + 1]_vars

\* the loop-back was taken once in a run with budget 2, which then ended
C23_Witness ==
  /\ pc = "END" /\ finalized = 1 /\ waves = 2
  /\ research_loop_count = 2 /\ max_research_loops = 2

\* the sentences of a text, each as <<q, p>>: the stretch after position q up
\* to position p that has no '.', between two of them or the ends of the text
SentenceBounds(text) ==
  { b \in (0..Len(text)) \X (0..Len(text)) :
      /\ b[1] <= b[2]
      /\ b[1] = 0 \/ text[b[1]] = 0
      /\ b[2] = Len(text) \/ text[b[2] + 1] = 0
      /\ \A k \in (b[1] + 1)..b[2] : text[k] # 0 }

\* One round of the loop took `before` to `after` for `source` as claimed:
\* with no word of the first three title words that is longer than 3 and in
\* the text, nothing changes; otherwise the citation is put at the end of the
\* first sentence that has the first such word (and, when unmarked_only, has
\* not the citation already), and nothing changes when there is none.
CitedAsClaimed(before, after, source, unmarked_only) ==
  LET words == TitleWords(source)
      citation == Citation(source)
      matching == { k \in 1..Len(words) :
                      Len(words[k]) > 3 /\ Contains(Lower(before), words[k]) }
  IN IF matching = {} THEN after = before
     ELSE LET word == words[CHOOSE k \in matching : \A n \in matching : k <= n]
              has == { b \in SentenceBounds(before) :
                         LET sentence == SubSeq(before, b[1] + 1, b[2])
                         IN /\ Contains(Lower(sentence), word)
                            /\ unmarked_only => ~Contains(sentence, citation) }
          IN IF has = {} THEN after = before
             ELSE LET b == CHOOSE x \in has : \A y \in has : x[2] <= y[2]
                  IN after = SubSeq(before, 1, b[2]) \o citation
                               \o SubSeq(before, b[2] + 1, Len(before))

\* the length of the citations of the first n sources
RECURSIVE CitationsLen(_, _)
CitationsLen(sources, n) ==
  IF n = 0 THEN 0 ELSE CitationsLen(sources, n - 1) + Len(Citation(sources[n]))

\* C24 as stated: each round of the loop over the sources puts the source's
\* citation at the end of the first sentence that has the first matching
\* title word, or leaves the text as it is when no word matches (or when
\* the text has that citation already).
C24_Original ==
  [][c_i' = c_i + 1 =>
       \/ CitedAsClaimed(c_content, c_content', c_sources[c_i'], FALSE)
       \/ /\ c_content' = c_content
          /\ Contains(c_content, Citation(c_sources[c_i']))]_vars

\* C24 amended: each round puts the source's citation at most once: at the
\* end of the first sentence that has the first matching title word and has
\* not that citation already, a sentence being a stretch of the text as it is
\* then between two '.'; the text is unchanged when no word matches or no
\* such sentence is there; so the text grows by at most the citations of the
\* sources done.
C24_AtMostOncePerSource ==
  /\ [][c_i' = c_i + 1 =>
          CitedAsClaimed(c_content, c_content', c_sources[c_i'], TRUE)]_vars
  /\ [](/\ Len(c_content) >= Len(c_llm)
        /\ Len(c_content) <= Len(c_llm) + CitationsLen(c_sources, c_i))

\* of two equal sources the second found the first sentence cited and put its
\* citation at the end of the second
C24_Witness ==
  /\ c_i = 2 /\ c_sources[1] = c_sources[2] /\ c_sources[1].url = <<7>>
  /\ c_llm = <<1, 1, 1, 1, 0, 11, 1, 1, 1>>
  /\ c_content = <<1, 1, 1, 1>> \o Citation(c_sources[1]) \o <<0, 11, 1, 1, 1>>
                   \o Citation(c_sources[1])

\* C25: is_sufficient, follow_up_queries and research_loop_count change only
\* in a reflection step and the final message only in a finalize_answer step;
\* generate_query and web_research steps leave all four as they are; and
\* is_sufficient is false until a reflection has returned.
C25_Frame ==
  /\ [][(\/ is_sufficient' # is_sufficient
         \/ follow_up_queries' # follow_up_queries
         \/ research_loop_count' # research_loop_count) => pc = "reflection"]_vars
  /\ [][messages' # messages => pc = "finalize_answer"]_vars
  /\ [][(pc \in {"generate_query", "web_research"}) =>
          (UNCHANGED <<research_loop_count, is_sufficient,
                       follow_up_queries, messages>>)]_vars
  /\ [](reflections = 0 => ~is_sufficient)

\* the second reflection said sufficient after a first one had asked for one
\* more query, and the final message was written
C25_Witness ==
  /\ pc = "END" /\ messages # <<>> /\ is_sufficient
  /\ reflections = 2 /\ research_loop_count = 2 /\ completed = 3

\* C26 as stated: the text kept in a record that search returns is at most
\* max_content_length long.
C26_ContentBounded ==
  s_pc = "returned" =>
    \A i \in 1..Len(s_valid) : s_valid[i].content <= max_content_length

====
